---- MODULE Spec2Model ----
(***************************************************************************)
(* Model of codegen-apollo-suspense (src/index.js).                        *)
(*                                                                         *)
(* Two parts of the plugin have behaviour worth verifying:                 *)
(*   - the emitted runtime, createRepository (the createRepo template,     *)
(*     index.js 8-26) together with the toCacheKey override and accessor   *)
(*     that buildOperation emits for every operation (index.js 108-127);   *)
(*   - the generator itself, Visitor.buildOperation (index.js 58-138).     *)
(***************************************************************************)
EXTENDS Integers, Sequences, FiniteSets, TLC

VARIABLES
    strategy,   \* per repository: the toCacheKey option it was created with
    cache,      \* per repository: own properties of the `cache` object
    promises,   \* every fetcher invocation so far, with its promise state
    issued,     \* history: reads issued per key while no fetch of it resolved
    rejected,   \* history: keys with a fetch rejected and no read since
    last,       \* history: what the most recent read call did
    document,       \* the operation definitions handed to the plugin
    visited,        \* how many of them the visitor has left behind
    definitions,    \* what buildOperation returned for them, '' dropped
    queryNames,     \* this.__queryNames
    mutationNames,  \* this.__mutationNames
    suspensions,    \* history: how many reads have signalled suspension
    validation      \* a call of validate: its inputs and how it settled

runtime == <<strategy, cache, promises, issued, rejected, last, suspensions>>
generator == <<document, visited, definitions, queryNames, mutationNames>>
vars == <<runtime, generator, validation>>

----------------------------------------------------------------------------
(* Bounds *)

MaxFetches == 2     \* fetcher invocations explored per behaviour
MaxReads == 2       \* reads of one still-unresolved key explored
MaxOperations == 3  \* operation definitions in a document

----------------------------------------------------------------------------
(* JavaScript values, tagged so that values of different types compare *)

Undefined == [t |-> "undefined"]
Str(s) == [t |-> "string", s |-> s]
Arr(items) == [t |-> "array", items |-> items]
Obj(props) == [t |-> "object", props |-> props]   \* <<name, value>> in insertion order
Client == [t |-> "client"]                         \* an ApolloClient handle
NativeFunction == [t |-> "function"]
Bool(b) == [t |-> "boolean", b |-> b]

\* a || b
OrElse(a, b) == IF a = Undefined \/ a = Str("") THEN b ELSE a

\* the i-th formal parameter of a call made with the actual arguments callArgs
Param(callArgs, i) == IF i <= Len(callArgs) THEN callArgs[i] ELSE Undefined

RECURSIVE JoinStrings(_, _)
JoinStrings(strs, sep) ==
    IF Len(strs) = 0 THEN ""
    ELSE IF Len(strs) = 1 THEN strs[1]
    ELSE strs[1] \o sep \o JoinStrings(Tail(strs), sep)

\* String(v), as property access and Array.prototype.join apply it
RECURSIVE StringOf(_)
StringOf(v) ==
    CASE v.t = "string" -> v.s
      [] v.t = "undefined" -> "undefined"
      [] v.t = "array" ->
            JoinStrings([i \in 1..Len(v.items) |->
                IF v.items[i] = Undefined THEN "" ELSE StringOf(v.items[i])], ",")
      [] v.t = "function" -> "function Object() { [native code] }"
      [] OTHER -> "[object Object]"

\* Array.prototype.join(sep): undefined elements give the empty string
Join(values, sep) ==
    JoinStrings([i \in 1..Len(values) |->
        IF values[i] = Undefined THEN "" ELSE StringOf(values[i])], sep)

\* Object.values(o): the own enumerable property values in insertion order
ObjectValues(o) ==
    CASE o.t = "object" -> [i \in 1..Len(o.props) |-> o.props[i][2]]
      [] o.t = "array" -> o.items
      [] OTHER -> << >>

----------------------------------------------------------------------------
(* Key strategies *)

\* toCacheKey: (_, variables) => Object.values(variables || {}).join('-'),
\* the override emitted for every generated repository
toCacheKey(callArgs) ==
    LET variables == Param(callArgs, 2)
    IN Str(Join(ObjectValues(OrElse(variables, Obj(<< >>))), "-"))

\* a caller-supplied option of the declared type, toCacheKey: id => id
firstArgument(callArgs) == Param(callArgs, 1)

RECURSIVE Serialize(_)
Serialize(v) ==
    CASE v.t = "string" -> "'" \o v.s \o "'"
      [] v.t = "array" ->
            "[" \o JoinStrings([i \in 1..Len(v.items) |-> Serialize(v.items[i])], ",") \o "]"
      [] v.t = "object" ->
            "{" \o JoinStrings([i \in 1..Len(v.props) |->
                        v.props[i][1] \o ":" \o Serialize(v.props[i][2])], ",") \o "}"
      [] OTHER -> v.t

\* object-hash: a digest that tells every two argument lists apart
hash(callArgs) == Str("hash" \o Serialize(Param(callArgs, 1)))

Strategies == {"generated", "custom", "none"}

\* options?.toCacheKey ?? hash
generateCacheKey(s, callArgs) ==
    CASE s = "generated" -> toCacheKey(callArgs)
      [] s = "custom" -> firstArgument(callArgs)
      [] OTHER -> hash(callArgs)

\* arrays, objects and functions are truthy
Truthy(v) == v # Undefined /\ v # Str("") /\ v # Bool(FALSE)

\* const cacheKey = args ? generateCacheKey(args) : 'default', as a property key
CacheKeyOf(s, args) ==
    StringOf(IF Truthy(Arr(args)) THEN generateCacheKey(s, << Arr(args) >>)
             ELSE Str("default"))

----------------------------------------------------------------------------
(* The cache object *)

\* what every object literal inherits
ObjectPrototype == [k \in {"constructor"} |-> NativeFunction]

EmptyObject == [k \in {} |-> Undefined]

\* cache[key]
Lookup(c, key) ==
    IF key \in DOMAIN c THEN c[key]
    ELSE IF key \in DOMAIN ObjectPrototype THEN ObjectPrototype[key]
    ELSE Undefined

\* cache = {[key]: value}: the other entries are dropped
AssignReplacing(c, key, value) == [k \in {key} |-> value]

\* cache[key] = value
Assign(c, key, value) ==
    [k \in DOMAIN c \cup {key} |-> IF k = key THEN value ELSE c[k]]

\* cache[cacheKey] === undefined
IsMiss(c, key) == Lookup(c, key) = Undefined

----------------------------------------------------------------------------
(* Inputs *)

Repos == {"r1", "r2"}

VariablesOf(city) == Obj(<< <<"city", Str(city)>>, <<"country", Str("au")>> >>)
OptionsOf(city) == Obj(<< <<"variables", VariablesOf(city)>> >>)

\* the argument lists a repository of each kind is read with
ArgsOf(s) ==
    CASE s = "generated" -> {<<Client, OptionsOf("melbourne")>>, <<Client, OptionsOf("sydney")>>}
      [] s = "custom" -> {<<Str("constructor")>>, <<Str("a")>>}
      [] OTHER -> {<< >>, <<Str("a")>>}

\* what a fetch can resolve with
FetchValues == {Undefined, Str("sunny"), Str("rainy")}

NoRead == [result |-> "none"]

NotValidated == [outcome |-> "none"]

\* every property key a read of the model can compute
AllKeys == UNION {{CacheKeyOf(s, a) : a \in ArgsOf(s)} : s \in Strategies}

----------------------------------------------------------------------------
(* createRepository and read *)

\* new Visitor(...): nothing visited, nothing recorded
NothingGenerated(doc) ==
    /\ document = doc
    /\ visited = 0
    /\ definitions = << >>
    /\ queryNames = << >>
    /\ mutationNames = << >>

\* let cache = {}; nothing fetched, nothing read
Created(strategies) ==
    /\ strategy \in strategies
    /\ cache = [r \in Repos |-> EmptyObject]
    /\ promises = << >>
    /\ issued = [r \in Repos |-> [k \in AllKeys |-> 0]]
    /\ rejected = {}
    /\ last = NoRead
    /\ suspensions = 0

\* the emitted module at run time: r2 is a generated repository, r1 one of
\* any kind; generation is over
Init ==
    /\ Created({f \in [Repos -> Strategies] : f["r2"] = "generated"})
    /\ NothingGenerated(<< >>)
    /\ validation = NotValidated

\* some fetch started for this key of this repository has resolved
ResolvedFor(r, key) ==
    \E i \in 1..Len(promises) :
        /\ promises[i].repo = r
        /\ promises[i].key = key
        /\ promises[i].state = "fulfilled"

\* some fetch of this repository has resolved
ResolvedIn(r) ==
    \E i \in 1..Len(promises) :
        promises[i].repo = r /\ promises[i].state = "fulfilled"

\* a fetch of the key that is still in flight is reused
FetchDeduplicated(ps, r, key, args) ==
    IF \E i \in 1..Len(ps) :
            ps[i].repo = r /\ ps[i].key = key /\ ps[i].state = "pending"
    THEN ps
    ELSE Append(ps, [repo |-> r, key |-> key, args |-> args,
                     state |-> "pending", value |-> Undefined])

\* the fetcher is invoked once more than needed
FetchTwice(ps, r, key, args) ==
    LET p == [repo |-> r, key |-> key, args |-> args,
              state |-> "pending", value |-> Undefined]
    IN Append(Append(ps, p), p)

\* fetcher(...args): the invocation and the promise it returns, ps being the
\* promises that exist
Fetch(ps, r, key, args) ==
    Append(ps, [repo |-> r, key |-> key, args |-> args,
                state |-> "pending", value |-> Undefined])

\* a miss records a pending marker under the key
ReadCallMarksPending(r, args, ps) ==
    LET cacheKey == CacheKeyOf(strategy[r], args)
        resolved == ResolvedFor(r, cacheKey)
    IN /\ IF IsMiss(cache[r], cacheKey)
          THEN /\ Len(ps) < MaxFetches
               /\ promises' = Fetch(ps, r, cacheKey, args)
               /\ cache' = [cache EXCEPT ![r] = Assign(@, cacheKey, Str("pending"))]
               /\ last' = [result |-> "suspended", repo |-> r, args |-> args,
                           key |-> cacheKey, value |-> Undefined,
                           thrown |-> Len(promises'),
                           invoked |-> Len(promises') - Len(ps),
                           resolvedBefore |-> resolved,
                           fresh |-> ~ResolvedIn(r),
                           afterReject |-> <<r, cacheKey>> \in rejected]
          ELSE /\ promises' = ps
               /\ UNCHANGED cache
               /\ last' = [result |-> "returned", repo |-> r, args |-> args,
                           key |-> cacheKey, value |-> Lookup(cache[r], cacheKey),
                           thrown |-> 0, invoked |-> 0,
                           resolvedBefore |-> resolved,
                           fresh |-> ~ResolvedIn(r),
                           afterReject |-> <<r, cacheKey>> \in rejected]
       /\ UNCHANGED <<strategy, generator, validation>>

\* the body of read(...args)
ReadCall(r, args, ps) ==
    LET cacheKey == CacheKeyOf(strategy[r], args)
        resolved == ResolvedFor(r, cacheKey)
    IN /\ IF IsMiss(cache[r], cacheKey)
          THEN /\ Len(ps) < MaxFetches
               /\ promises' = Fetch(ps, r, cacheKey, args)
               /\ last' = [result |-> "suspended", repo |-> r, args |-> args,
                           key |-> cacheKey, value |-> Undefined,
                           thrown |-> Len(promises'),
                           invoked |-> Len(promises') - Len(ps),
                           resolvedBefore |-> resolved,
                           fresh |-> ~ResolvedIn(r),
                           afterReject |-> <<r, cacheKey>> \in rejected]
          ELSE /\ promises' = ps
               /\ last' = [result |-> "returned", repo |-> r, args |-> args,
                           key |-> cacheKey, value |-> Lookup(cache[r], cacheKey),
                           thrown |-> 0, invoked |-> 0,
                           resolvedBefore |-> resolved,
                           fresh |-> ~ResolvedIn(r),
                           afterReject |-> <<r, cacheKey>> \in rejected]
       /\ UNCHANGED <<strategy, cache, generator, validation>>

\* read(...args), called by anyone at any time
Read(r, args) ==
    LET cacheKey == CacheKeyOf(strategy[r], args)
        resolved == ResolvedFor(r, cacheKey)
    IN /\ resolved \/ issued[r][cacheKey] < MaxReads
       /\ ReadCall(r, args, promises)
       /\ issued' = IF resolved THEN issued
                    ELSE [issued EXCEPT ![r][cacheKey] = @ + 1]
       /\ rejected' = rejected \ {<<r, cacheKey>>}
       /\ suspensions' = IF last'.result = "suspended" THEN suspensions + 1
                         ELSE suspensions

\* one cache object for the whole module: every repository gets the entry
ResolveShared(i, v) ==
    /\ promises[i].state = "pending"
    /\ cache' = [r \in Repos |-> Assign(cache[r], promises[i].key, v)]
    /\ promises' = [promises EXCEPT ![i].state = "fulfilled", ![i].value = v]
    /\ UNCHANGED <<strategy, issued, rejected, last, suspensions, generator,
                   validation>>

\* .then(value => (cache[cacheKey] = value)) of a fetch that resolves with v
Resolve(i, v) ==
    /\ promises[i].state = "pending"
    /\ cache' = [cache EXCEPT ![promises[i].repo] = Assign(@, promises[i].key, v)]
    /\ promises' = [promises EXCEPT ![i].state = "fulfilled", ![i].value = v]
    /\ UNCHANGED <<strategy, issued, rejected, last, suspensions, generator,
                   validation>>

\* the failure is stored under the key
RejectStoresFailure(i) ==
    /\ promises[i].state = "pending"
    /\ promises' = [promises EXCEPT ![i].state = "rejected"]
    /\ cache' = [cache EXCEPT ![promises[i].repo] =
                    Assign(@, promises[i].key, Str("error"))]
    /\ rejected' = rejected \cup {<<promises[i].repo, promises[i].key>>}
    /\ UNCHANGED <<strategy, issued, last, suspensions, generator, validation>>

\* a fetch that rejects: the .then callback never runs
Reject(i) ==
    /\ promises[i].state = "pending"
    /\ promises' = [promises EXCEPT ![i].state = "rejected"]
    /\ rejected' = rejected \cup {<<promises[i].repo, promises[i].key>>}
    /\ UNCHANGED <<strategy, cache, issued, last, suspensions, generator,
                   validation>>

Next ==
    \/ \E r \in Repos : \E args \in ArgsOf(strategy[r]) : Read(r, args)
    \/ \E i \in 1..Len(promises) : \E v \in FetchValues : Resolve(i, v)
    \/ \E i \in 1..Len(promises) : Reject(i)

Spec == Init /\ [][Next]_vars

TypeOK ==
    /\ strategy \in [Repos -> Strategies]
    /\ Len(promises) <= MaxFetches
    /\ rejected \subseteq Repos \X AllKeys
    /\ \A r \in Repos : DOMAIN cache[r] \subseteq AllKeys

----------------------------------------------------------------------------
(* A suspending scheduler: one rendering unit that calls read, is parked
   while the promise it was thrown is in flight, and is re-invoked with the
   same arguments once that promise has completed *)

\* settled promises are garbage: nothing refers to them any more
InFlight(ps) == SelectSeq(ps, LAMBDA p : p.state = "pending")

\* the unit renders for the first time, or again with other arguments once
\* it has its data
Mount(r, args) ==
    /\ last = NoRead \/ last.result = "returned"
    /\ ReadCall(r, args, InFlight(promises))
    /\ UNCHANGED <<issued, rejected, suspensions>>

\* the promise the unit is parked on has completed: read is called again
Retry ==
    /\ last.result = "suspended"
    /\ promises[last.thrown].state # "pending"
    /\ ReadCall(last.repo, last.args, InFlight(promises))
    /\ UNCHANGED <<issued, rejected, suspensions>>

\* every fetch resolves
Settle == \E i \in 1..Len(promises) : \E v \in FetchValues : Resolve(i, v)

LiveNext ==
    \/ \E r \in Repos : \E args \in ArgsOf(strategy[r]) : Mount(r, args)
    \/ Retry
    \/ Settle

LiveSpec ==
    /\ Init
    /\ [][LiveNext]_vars
    /\ WF_vars(Retry)
    /\ WF_vars(Settle)

----------------------------------------------------------------------------
(* The generator: Visitor.buildOperation, called once per operation
   definition of the document, in document order *)

Upper ==
    [c \in {"g", "u", "o", "q", "m", "s"} |->
        CASE c = "g" -> "G" [] c = "u" -> "U" [] c = "o" -> "O"
          [] c = "q" -> "Q" [] c = "m" -> "M" [] OTHER -> "S"]

Lower ==
    [c \in {"G", "U", "O", "Q", "M", "S"} |->
        CASE c = "G" -> "g" [] c = "U" -> "u" [] c = "O" -> "o"
          [] c = "Q" -> "q" [] c = "M" -> "m" [] OTHER -> "s"]

toUpperCase(c) == IF c \in DOMAIN Upper THEN Upper[c] ELSE c
toLowerCase(c) == IF c \in DOMAIN Lower THEN Lower[c] ELSE c

\* pascalCase of a name written in camel or Pascal case
pascalCase(term) ==
    IF Len(term) = 0 THEN "" ELSE toUpperCase(Head(term)) \o Tail(term)

EndsWith(term, suffix) ==
    /\ Len(term) >= Len(suffix)
    /\ SubSeq(term, Len(term) - Len(suffix) + 1, Len(term)) = suffix

\* term.replace(/suffix$/, '')
StripSuffix(term, suffix) ==
    IF EndsWith(term, suffix) THEN SubSeq(term, 1, Len(term) - Len(suffix))
    ELSE term

lowerCaseFirstLetter(term) ==
    LET lowered == IF Len(term) = 0 THEN ""
                   ELSE toLowerCase(Head(term)) \o Tail(term)
    IN StripSuffix(StripSuffix(lowered, "Query"), "Mutation")

\* this.convertName(name, {suffix}) under the default naming convention and
\* no types prefix or suffix
convertName(name, suffix) == pascalCase(name) \o suffix

NoBinding == [name |-> "", action |-> "", type |-> ""]

\* no operation is skipped
buildOperationNeverSkips(node, operationType) ==
    LET nodeName == node.name
        operationName == convertName(nodeName, pascalCase(operationType))
        isMutation == operationType = "Mutation"
        optionsTypeString == IF isMutation THEN "MutationOptions" ELSE "QueryOptions"
        clientAction == IF isMutation THEN "mutate" ELSE "query"
        documentKeyword == IF isMutation THEN "mutation" ELSE "query"
        baseName == convertName(nodeName,
                        "Suspense" \o (IF isMutation THEN "Mutation" ELSE "Query"))
    IN [skipped |-> FALSE,
        body |-> [repository |-> lowerCaseFirstLetter(baseName),
                  accessor |-> "use" \o baseName,
                  strategy |-> "generated",
                  clientAction |-> clientAction,
                  documentKeyword |-> documentKeyword],
        into |-> IF isMutation THEN "mutationNames" ELSE "queryNames",
        binding |-> [name |-> operationName, action |-> clientAction,
                     type |-> optionsTypeString]]

\* buildOperation(node, documentVariableName, operationType, ...): the text
\* it returns, by its parts, and the binding it records
buildOperation(node, operationType) ==
    LET nodeName == node.name
        suffix == pascalCase(operationType)
        operationName == convertName(nodeName, suffix)
        isMutation == operationType = "Mutation"
        isQuery == operationType = "Query"
        optionsTypeString == IF isMutation THEN "MutationOptions" ELSE "QueryOptions"
        clientAction == IF isMutation THEN "mutate" ELSE "query"
        documentKeyword == IF isMutation THEN "mutation" ELSE "query"
        baseName == convertName(nodeName,
                        "Suspense" \o (IF isMutation THEN "Mutation" ELSE "Query"))
    IN IF isMutation /\ ~isQuery
       THEN [skipped |-> TRUE, body |-> "", into |-> "", binding |-> NoBinding]
       ELSE [skipped |-> FALSE,
             body |-> [repository |-> lowerCaseFirstLetter(baseName),
                       accessor |-> "use" \o baseName,
                       strategy |-> "generated",
                       clientAction |-> clientAction,
                       documentKeyword |-> documentKeyword],
             into |-> IF isMutation THEN "mutationNames" ELSE "queryNames",
             binding |-> [name |-> operationName, action |-> clientAction,
                          type |-> optionsTypeString]]

\* the operation definitions a document is made of
Operations ==
    {[name |-> "GetWeather", operation |-> "query"],
     [name |-> "UpdateCity", operation |-> "mutation"],
     [name |-> "OnWeather", operation |-> "subscription"],
     [name |-> "", operation |-> "query"]}

Documents == UNION {[1..n -> Operations] : n \in 0..MaxOperations}

\* the visitor leaves the next operation definition: the base visitor's
\* OperationDefinition hands it to buildOperation with the pascal-cased kind
VisitOperation ==
    /\ visited < Len(document)
    /\ LET node == document[visited + 1]
           built == buildOperation(node, pascalCase(node.operation))
       IN /\ visited' = visited + 1
          /\ definitions' = IF built.skipped THEN definitions
                            ELSE Append(definitions, built.body)
          /\ queryNames' = IF built.into = "queryNames"
                           THEN Append(queryNames, built.binding) ELSE queryNames
          /\ mutationNames' = IF built.into = "mutationNames"
                              THEN Append(mutationNames, built.binding)
                              ELSE mutationNames
    /\ UNCHANGED <<document, runtime, validation>>

GenInit ==
    /\ Created({[r \in Repos |-> "generated"]})
    /\ \E doc \in Documents : NothingGenerated(doc)
    /\ validation = NotValidated

GenNext == VisitOperation

GenSpec == GenInit /\ [][GenNext]_vars

----------------------------------------------------------------------------
(* validate(schema, documents, config, outputFile) *)

LastIndexOf(term, c) ==
    LET at == {i \in 1..Len(term) : SubSeq(term, i, i) = c}
    IN IF at = {} THEN 0 ELSE CHOOSE i \in at : \A j \in at : j <= i

\* path.basename(path) of a path that does not end with a slash
basename(path) == SubSeq(path, LastIndexOf(path, "/") + 1, Len(path))

\* path.extname(path): from the last dot of the last segment to its end; ''
\* when there is no dot or the segment only starts with its dot
extname(path) ==
    LET base == basename(path)
        dot == LastIndexOf(base, ".")
    IN IF dot <= 1 \/ base = ".." THEN "" ELSE SubSeq(base, dot, Len(base))

validFileExtensions == {".ts", ".tsx"}

\* the checks are made whatever disableChecks says
validateAlwaysChecks(config, outputFile) ==
    IF extname(outputFile) \notin validFileExtensions THEN "rejected"
    ELSE "resolved"

\* how the promise validate returns settles
validate(config, outputFile) ==
    IF Truthy(config.disableChecks) THEN "resolved"
    ELSE IF extname(outputFile) \notin validFileExtensions THEN "rejected"
    ELSE "resolved"

\* config.disableChecks: true, false or not given
Configs == {[disableChecks |-> v] : v \in {Bool(TRUE), Bool(FALSE), Undefined}}

OutputFiles ==
    {dir \o base :
        dir \in {"", "src/", "gen.ts/"},
        base \in {"schema.ts", "schema.tsx", "schema.py", "schema", ".ts",
                  ".tsx", "schema.d.ts", "schema.ts.bak", "schema.TS",
                  "schema.", "..ts"}}

Validate ==
    /\ validation.outcome = "pending"
    /\ validation' = [validation EXCEPT
            !.outcome = validate(validation.config, validation.outputFile)]
    /\ UNCHANGED <<runtime, generator>>

ValInit ==
    /\ Created({[r \in Repos |-> "generated"]})
    /\ NothingGenerated(<< >>)
    /\ validation \in [config : Configs, outputFile : OutputFiles,
                        outcome : {"pending"}]

ValNext == Validate

ValSpec == ValInit /\ [][ValNext]_vars

----------------------------------------------------------------------------
(* Properties of read *)

\* the reads and invocations the properties speak of
ReadHappened == last.result # "none"

Calls(r, key) ==
    Cardinality({i \in 1..Len(promises) :
                    promises[i].repo = r /\ promises[i].key = key})

ValuesResolved(r, key) ==
    {promises[i].value : i \in {j \in 1..Len(promises) :
        /\ promises[j].repo = r
        /\ promises[j].key = key
        /\ promises[j].state = "fulfilled"}}

\* C1 (as claimed): a read of a key for which some fetch had already resolved
\* returns a value that a fetch of the key resolved with, and makes no
\* fetcher invocation.
C1_CacheHitAfterResolution ==
    (ReadHappened /\ last.resolvedBefore) =>
        /\ last.result = "returned"
        /\ last.invoked = 0
        /\ last.value \in ValuesResolved(last.repo, last.key)

\* C2 (as claimed): a read on a repository in which no fetch had resolved
\* invokes the fetcher once, with the arguments of the call, and suspends.
C2_FreshRepositorySuspends ==
    (ReadHappened /\ last.fresh) =>
        /\ last.result = "suspended"
        /\ last.invoked = 1
        /\ promises[last.thrown].args = last.args

\* C3 (as claimed): once a fetch of a key has resolved, no step changes what
\* the key maps to.
C3_ResolvedValueNeverChanges ==
    [][\A r \in Repos : \A k \in AllKeys :
          ResolvedFor(r, k) => Lookup(cache'[r], k) = Lookup(cache[r], k)]_vars

\* C4: for every key with a fetch started and none resolved yet, the fetcher
\* has been invoked once per read issued for the key: N reads, N invocations.
C4_NoInFlightDeduplication ==
    \A r \in Repos : \A k \in AllKeys :
        (Calls(r, k) > 0 /\ ~ResolvedFor(r, k)) => Calls(r, k) = issued[r][k]

\* two reads of one key, both fetches still in flight
C4_Witness ==
    \E i, j \in 1..Len(promises) :
        /\ i # j
        /\ promises[i].repo = promises[j].repo
        /\ promises[i].key = promises[j].key
        /\ promises[i].state = "pending"
        /\ promises[j].state = "pending"
        /\ issued[promises[i].repo][promises[i].key] = 2

\* every own entry of a cache was written by a resolved fetch of its own key
EntriesComeFromResolutions ==
    \A r \in Repos : \A k \in DOMAIN cache[r] :
        cache[r][k] \in ValuesResolved(r, k)

\* the promise a suspended read threw is the one of the fetch it started
ThrownIsOwnFetch ==
    (ReadHappened /\ last.result = "suspended") =>
        /\ last.thrown \in 1..Len(promises)
        /\ promises[last.thrown].repo = last.repo
        /\ promises[last.thrown].key = last.key
        /\ promises[last.thrown].args = last.args

\* C5 (as claimed): a rejection writes no entry, the caller holds the promise
\* that rejected, and the next read of the key after a rejection starts a
\* fresh fetch.
C5_RejectionThenFreshFetch ==
    /\ EntriesComeFromResolutions
    /\ ThrownIsOwnFetch
    /\ (ReadHappened /\ last.afterReject) =>
            (last.result = "suspended" /\ last.invoked = 1)

\* C5 (amended): as above, but the next read of the key starts a fresh fetch
\* unless another fetch of the same key had resolved.
C5_RejectionDoesNotPoison ==
    /\ EntriesComeFromResolutions
    /\ ThrownIsOwnFetch
    /\ (ReadHappened /\ last.afterReject /\ ~last.resolvedBefore) =>
            (last.result = "suspended" /\ last.invoked = 1)

\* a fetch of a key rejected, and the next read of the key fetched again
C5_Witness ==
    /\ ReadHappened
    /\ last.afterReject
    /\ ~last.resolvedBefore
    /\ last.result = "suspended"
    /\ \E i \in 1..Len(promises) :
          /\ i < last.thrown
          /\ promises[i].repo = last.repo
          /\ promises[i].key = last.key
          /\ promises[i].state = "rejected"
    /\ last.key \notin DOMAIN cache[last.repo]

\* the key the accessor's options are meant to give: the values of
\* options.variables, in declared order, joined with "-"
VariablesKey(args) ==
    LET options == args[2]
        i == CHOOSE n \in 1..Len(options.props) : options.props[n][1] = "variables"
    IN Join(ObjectValues(options.props[i][2]), "-")

\* C6 (as claimed): a generated repository reads read(client, options) under
\* the key made of the values of options.variables joined with "-".
C6_GeneratedKeyJoinsVariables ==
    (ReadHappened /\ strategy[last.repo] = "generated") =>
        last.key = VariablesKey(last.args)

\* C7: a read that suspends makes a new fetcher invocation of its own, under
\* its own key and arguments, and the resolution of a fetch of key k1 leaves
\* every other key k2 of the repository as it was: not created, not changed.
C7_PerKeyIndependence ==
    [][/\ (last' # last /\ last'.result = "suspended") =>
            /\ Len(promises') = Len(promises) + 1
            /\ SubSeq(promises', 1, Len(promises)) = promises
            /\ promises'[Len(promises')].key = last'.key
            /\ promises'[Len(promises')].args = last'.args
       /\ \A i \in 1..Len(promises) :
            (promises[i].state = "pending" /\ promises'[i].state = "fulfilled") =>
                \A k2 \in AllKeys \ {promises[i].key} :
                    LET r == promises[i].repo
                    IN /\ (k2 \in DOMAIN cache'[r]) = (k2 \in DOMAIN cache[r])
                       /\ Lookup(cache'[r], k2) = Lookup(cache[r], k2)]_vars

\* two keys of one repository were fetched; one has resolved and is stored,
\* the other is still in flight and has no entry
C7_Witness ==
    \E i, j \in 1..Len(promises) :
        /\ promises[i].repo = promises[j].repo
        /\ promises[i].key # promises[j].key
        /\ promises[i].state = "fulfilled"
        /\ promises[j].state = "pending"
        /\ promises[i].key \in DOMAIN cache[promises[i].repo]
        /\ promises[j].key \notin DOMAIN cache[promises[j].repo]

\* C8 (as claimed): a key for which some fetch has resolved is present in the
\* mapping: a read of it hits.
C8_NeverLosesResolvedEntry ==
    \A r \in Repos : \A k \in AllKeys :
        ResolvedFor(r, k) => ~IsMiss(cache[r], k)

----------------------------------------------------------------------------
(* Properties of the scheduler and of the generator *)

\* C9 (as claimed): when read is re-invoked after each completion and every
\* fetch resolves, a unit that was suspended on a key eventually gets a value
\* from a read of that key.
C9_EventualReadiness ==
    \A r \in Repos : \A k \in AllKeys :
        (last.result = "suspended" /\ last.repo = r /\ last.key = k)
            ~> (last.result = "returned" /\ last.repo = r /\ last.key = k)

Generated == visited = Len(document)

OperationsOfKind(kind) ==
    {i \in 1..Len(document) : document[i].operation = kind}

Visited == {i \in 1..Len(document) : i <= visited}

\* C11 (as claimed): every visited operation of kind query or mutation has
\* its repository and accessor among the emitted definitions.
C11_RepositoryForQueriesAndMutations ==
    \A i \in Visited :
        document[i].operation \in {"query", "mutation"} =>
            \E j \in 1..Len(definitions) :
                /\ definitions[j].accessor =
                      "use" \o document[i].name \o "Suspense"
                            \o (IF document[i].operation = "query"
                                THEN "Query" ELSE "Mutation")
                /\ definitions[j].repository # ""

\* C12 (as claimed): nothing is emitted and no binding is recorded for a
\* subscription: definitions and bindings come from the other operations only.
C12_SubscriptionsNeverProcessed ==
    LET others == {i \in Visited : document[i].operation # "subscription"}
    IN /\ Len(definitions) <= Cardinality(others)
       /\ Len(queryNames) + Len(mutationNames) <= Cardinality(others)

\* the path ends with the extension, which is not the whole of its last segment
HasExtension(path, ext) ==
    /\ Len(path) > Len(ext)
    /\ SubSeq(path, Len(path) - Len(ext) + 1, Len(path)) = ext
    /\ SubSeq(path, Len(path) - Len(ext), Len(path) - Len(ext)) # "/"

Validated == validation.outcome \in {"resolved", "rejected"}

\* C13: validate fails exactly when disableChecks is not true and the output
\* path's extension is neither .ts nor .tsx; schema.py with disableChecks
\* false fails and schema.tsx succeeds.
C13_OutputValidation ==
    Validated =>
        /\ (validation.outcome = "rejected") =
              (/\ validation.config.disableChecks # Bool(TRUE)
               /\ ~HasExtension(validation.outputFile, ".ts")
               /\ ~HasExtension(validation.outputFile, ".tsx"))
        /\ (/\ validation.outputFile = "schema.py"
            /\ validation.config.disableChecks = Bool(FALSE)) =>
                validation.outcome = "rejected"
        /\ validation.outputFile = "schema.tsx" =>
                validation.outcome = "resolved"

\* schema.py was validated with disableChecks false, and validate failed
C13_Witness ==
    /\ validation.outcome = "rejected"
    /\ validation.outputFile = "schema.py"
    /\ validation.config.disableChecks = Bool(FALSE)

\* a step in which promise i goes from pending to fulfilled
Resolves(i) ==
    /\ i \in 1..Len(promises)
    /\ promises[i].state = "pending"
    /\ promises'[i].state = "fulfilled"

\* C14: a read call leaves the mapping as it was, on a hit and on a miss; the
\* mapping changes only in the resolution of a fetch, and then exactly the
\* key computed by the read that started the fetch is written, with the
\* value the fetch resolved with.
C14_NoPendingEntry ==
    [][/\ last' # last => cache' = cache
       /\ Len(promises') > Len(promises) => cache' = cache
       /\ cache' # cache =>
            \E i \in 1..Len(promises) :
                LET r == promises[i].repo
                    key == promises[i].key
                IN /\ Resolves(i)
                   /\ key = CacheKeyOf(strategy[r], promises[i].args)
                   /\ DOMAIN cache'[r] = DOMAIN cache[r] \cup {key}
                   /\ cache'[r][key] = promises'[i].value
                   /\ \A k \in DOMAIN cache[r] \ {key} : cache'[r][k] = cache[r][k]
                   /\ \A r2 \in Repos \ {r} : cache'[r2] = cache[r2]]_vars

\* a read has missed and its fetch is in flight: the key has no entry
C14_Witness ==
    /\ ReadHappened
    /\ last.result = "suspended"
    /\ promises[last.thrown].state = "pending"
    /\ promises[last.thrown].key = last.key
    /\ last.key \notin DOMAIN cache[last.repo]

\* the step is a read of repository r, or settles or starts a fetch of r
StepOn(r) ==
    \/ last' # last /\ last'.repo = r
    \/ \E i \in 1..Len(promises) :
          promises[i].repo = r /\ promises'[i].state # promises[i].state
    \/ /\ Len(promises') > Len(promises)
       /\ promises'[Len(promises')].repo = r

\* C15: a read, a resolution or a rejection on one repository leaves every
\* other repository's mapping as it was, so what a read of any key on
\* another repository returns, and whether it fetches, does not change.
C15_RepositoryIsolation ==
    [][\A r \in Repos : StepOn(r) =>
          \A r2 \in Repos \ {r} :
              /\ DOMAIN cache'[r2] = DOMAIN cache[r2]
              /\ \A k \in AllKeys :
                    /\ Lookup(cache'[r2], k) = Lookup(cache[r2], k)
                    /\ IsMiss(cache'[r2], k) = IsMiss(cache[r2], k)]_vars

\* two repositories with the same key strategy: a fetch of one has resolved
\* and is stored, and a later read of the same key on the other one missed
C15_Witness ==
    /\ ReadHappened
    /\ last.result = "suspended"
    /\ \E i \in 1..Len(promises) :
          /\ i < last.thrown
          /\ promises[i].repo # last.repo
          /\ strategy[promises[i].repo] = strategy[last.repo]
          /\ promises[i].key = last.key
          /\ promises[i].state = "fulfilled"
          /\ promises[i].value # Undefined
          /\ last.key \in DOMAIN cache[promises[i].repo]
    /\ last.key \notin DOMAIN cache[last.repo]

\* C16 (as claimed): a repository created without a toCacheKey override reads
\* under the literal key "default" when read is called with no arguments,
\* and under the hash of the full argument list otherwise.
C16_DefaultKeyStrategy ==
    (ReadHappened /\ strategy[last.repo] = "none") =>
        last.key = IF last.args = << >> THEN "default"
                   ELSE hash(<< Arr(last.args) >>).s

\* the variables object of an accessor call
VariablesIn(args) ==
    LET options == args[2]
        i == CHOOSE n \in 1..Len(options.props) : options.props[n][1] = "variables"
    IN options.props[i][2]

\* C17 (as claimed): in a generated repository, calls whose variables differ
\* are kept apart: a call that returns data returns what a fetch made with
\* its own variables resolved with, never the data of another variable set.
C17_VariableIsolation ==
    (/\ ReadHappened
     /\ strategy[last.repo] = "generated"
     /\ last.result = "returned") =>
        \E i \in 1..Len(promises) :
            /\ promises[i].repo = last.repo
            /\ promises[i].state = "fulfilled"
            /\ VariablesIn(promises[i].args) = VariablesIn(last.args)
            /\ promises[i].value = last.value

\* C18: every read either returned with no fetcher invocation or signalled
\* suspension with exactly one, and the fetcher has been invoked as many
\* times as reads have signalled suspension.
C18_FetchAccounting ==
    /\ ReadHappened =>
          \/ last.result = "returned" /\ last.invoked = 0
          \/ last.result = "suspended" /\ last.invoked = 1
    /\ Len(promises) = suspensions

\* reads have suspended and reads have returned, and fetches were made
C18_Witness ==
    /\ ReadHappened
    /\ last.result = "returned"
    /\ last.resolvedBefore
    /\ suspensions = 2
    /\ Len(promises) = 2

====
